---- MODULE Spec2Model ----
(***************************************************************************)
(* A model of lib/ast.go of mewn: the scan GetReferencedAssets and the two *)
(* matchers ParseAssignment and ParseCallExpr.                             *)
(*                                                                         *)
(* Text (file names, directories, literal tokens, asset paths) is a        *)
(* sequence of atoms.  An atom is one of the characters the code treats    *)
(* specially (the double quote, the back quote, the backslash, the path    *)
(* separator) or an unbroken run of other characters ("dir", "x.txt",      *)
(* "..", ".").                                                             *)
(*                                                                         *)
(* A nil pointer result of a matcher is the empty sequence, a non-nil one  *)
(* the one-element sequence holding the record.  A *Group is an index into *)
(* heap (0 is nil); a *ReferencedAssets is its key in assetMap, the only   *)
(* place that allocates one.                                               *)
(***************************************************************************)
EXTENDS Integers, Sequences, FiniteSets, TLC

\* ------------------------------------------------------------------ bounds
\* loop iterations and callback invocations of one call, taken together
MaxSteps == 6

\* ------------------------------------------------------------------- text
DQ == "\""
\* the back quote that delimits a raw string literal, and the single quote
\* that delimits a character literal
BQ == "BACKQUOTE"
SQ == "SINGLEQUOTE"
BS == "\\"
SL == "/"

\* strings.Replace(s, old, "", -1) for a one-character old
Replace(s, old) == SelectSeq(s, LAMBDA c : c # old)

\* index of the first / last separator of p, 0 when there is none
FirstSep(p) ==
  IF \E i \in 1..Len(p) : p[i] = SL
  THEN CHOOSE i \in 1..Len(p) : p[i] = SL /\ \A j \in 1..(i - 1) : p[j] # SL
  ELSE 0

LastSep(p) ==
  IF \E i \in 1..Len(p) : p[i] = SL
  THEN CHOOSE i \in 1..Len(p) : p[i] = SL /\ \A j \in (i + 1)..Len(p) : p[j] # SL
  ELSE 0

\* the non-empty elements of p between separators
RECURSIVE SplitPath(_)
SplitPath(p) ==
  IF p = <<>> THEN <<>>
  ELSE LET i == FirstSep(p)
       IN  IF i = 0 THEN <<p>>
           ELSE (IF i = 1 THEN <<>> ELSE <<SubSeq(p, 1, i - 1)>>)
                \o SplitPath(SubSeq(p, i + 1, Len(p)))

RECURSIVE JoinSegs(_)
JoinSegs(segs) ==
  IF segs = <<>> THEN <<>>
  ELSE IF Len(segs) = 1 THEN segs[1]
  ELSE segs[1] \o <<SL>> \o JoinSegs(Tail(segs))

IsAbs(p) == p # <<>> /\ p[1] = SL

\* filepath.Clean: the elements of p with "." dropped and ".." resolved
RECURSIVE CleanSegs(_, _, _)
CleanSegs(segs, out, rooted) ==
  IF segs = <<>> THEN out
  ELSE LET s == Head(segs)
           rest == Tail(segs)
       IN  IF s = <<".">> THEN CleanSegs(rest, out, rooted)
           ELSE IF s = <<"..">>
                THEN IF out # <<>> /\ out[Len(out)] # <<"..">>
                     THEN CleanSegs(rest, SubSeq(out, 1, Len(out) - 1), rooted)
                     ELSE IF rooted THEN CleanSegs(rest, out, rooted)
                     ELSE CleanSegs(rest, Append(out, s), rooted)
                ELSE CleanSegs(rest, Append(out, s), rooted)

Clean(p) ==
  LET body == JoinSegs(CleanSegs(SplitPath(p), <<>>, IsAbs(p)))
  IN  IF IsAbs(p) THEN <<SL>> \o body
      ELSE IF body = <<>> THEN <<".">>
      ELSE body

\* filepath.Dir
Dir(path) == Clean(SubSeq(path, 1, LastSep(path)))

\* filepath.Join of two elements
Join(a, b) ==
  IF a = <<>> /\ b = <<>> THEN <<>>
  ELSE IF a = <<>> THEN Clean(b)
  ELSE IF b = <<>> THEN Clean(a)
  ELSE Clean(a \o <<SL>> \o b)

\* filepath.Abs; wd is the outcome of os.Getwd: <<>> when it fails, else
\* the one-element sequence holding the working directory
Abs(path, wd) ==
  IF IsAbs(path) THEN [path |-> Clean(path), ok |-> TRUE]
  ELSE IF wd = <<>> THEN [path |-> <<>>, ok |-> FALSE]
  ELSE [path |-> Join(wd[1], path), ok |-> TRUE]

\* -------------------------------------------------------------- the tree
Ident(n) == [type |-> "*ast.Ident", Name |-> n]
BasicLit(k, v) == [type |-> "*ast.BasicLit", Kind |-> k, Value |-> v]
SelectorExpr(x, sel) == [type |-> "*ast.SelectorExpr", X |-> x, Sel |-> sel]
CallExpr(fun, args) == [type |-> "*ast.CallExpr", Fun |-> fun, Args |-> args]
AssignStmt(lhs, rhs) == [type |-> "*ast.AssignStmt", Lhs |-> lhs, Rhs |-> rhs]
ExprStmt(x) == [type |-> "*ast.ExprStmt", X |-> x]

\* a string literal token as the scanner delivers it, quotes included
StringLit(text) == BasicLit("STRING", <<DQ>> \o text \o <<DQ>>)
RawLit(text) == BasicLit("STRING", <<BQ>> \o text \o <<BQ>>)

\* ---------------------------------------------------------- the matchers
ParseCallExpr(callstmt) ==
  IF Len(callstmt.Args) # 1 THEN <<>>
  ELSE IF callstmt.Fun.type # "*ast.SelectorExpr" THEN <<>>
  ELSE IF callstmt.Fun.X.type # "*ast.Ident" THEN <<>>
  ELSE IF callstmt.Fun.Sel.type # "*ast.Ident" THEN <<>>
  ELSE IF callstmt.Args[1].type # "*ast.BasicLit" THEN <<>>
  ELSE <<[Obj |-> callstmt.Fun.X.Name,
          Method |-> callstmt.Fun.Sel.Name,
          Path |-> Replace(callstmt.Args[1].Value, DQ)]>>

\* ParseAssignment that requires the single identifier target
ParseAssignmentStrict(astmt) ==
  IF Len(astmt.Lhs) = 1 /\ astmt.Lhs[1].type = "*ast.Ident"
     /\ Len(astmt.Rhs) = 1 /\ astmt.Rhs[1].type = "*ast.CallExpr"
  THEN LET call == ParseCallExpr(astmt.Rhs[1])
       IN  IF call # <<>>
           THEN <<[LHS |-> astmt.Lhs[1].Name, RHS |-> call[1]]>>
           ELSE <<>>
  ELSE <<>>

ParseAssignment(astmt) ==
  LET lhs == IF Len(astmt.Lhs) = 1 /\ astmt.Lhs[1].type = "*ast.Ident"
             THEN astmt.Lhs[1].Name
             ELSE ""
  IN  IF Len(astmt.Rhs) = 1 /\ astmt.Rhs[1].type = "*ast.CallExpr"
      THEN LET call == ParseCallExpr(astmt.Rhs[1])
           IN  IF call # <<>> THEN <<[LHS |-> lhs, RHS |-> call[1]]>>
               ELSE <<>>
      ELSE <<>>

\* ----------------------------------------------------------------- inputs
\* the files a caller may name: two files of the relative directory a, with
\* different package clauses, one of the absolute directory /r, and one that
\* does not parse
GoodFiles ==
  { [name |-> <<"a", SL, "m.go">>, pkg |-> "main", ok |-> TRUE],
    [name |-> <<"a", SL, "n.go">>, pkg |-> "main_test", ok |-> TRUE],
    [name |-> <<SL, "r", SL, "m.go">>, pkg |-> "lib", ok |-> TRUE] }

BadFiles ==
  { [name |-> <<"a", SL, "bad.go">>, pkg |-> "", ok |-> FALSE] }

SourceFiles == GoodFiles \cup BadFiles

\* the outcomes of os.Getwd: it fails, or it names the working directory
WorkDir == <<SL, "w">>
WorkDirs == { <<>>, <<WorkDir>> }

DirectMethods == {"String", "MustString", "Bytes", "MustBytes"}

Call1(obj, method, arg) ==
  CallExpr(SelectorExpr(Ident(obj), Ident(method)), <<arg>>)

dirLit == StringLit(<<"dir">>)
upLit == StringLit(<<"..", SL, "d">>)
xLit == StringLit(<<"x.txt">>)
yLit == StringLit(<<"y.txt">>)

\* the nodes a walk may meet
GroupNodes ==
  { AssignStmt(<<Ident("g")>>, <<Call1("mewn", "Group", dirLit)>>),
    AssignStmt(<<SelectorExpr(Ident("s"), Ident("f"))>>,
               <<Call1("mewn", "Group", upLit)>>) }

DirectNodes ==
  { AssignStmt(<<Ident("s")>>, <<Call1("mewn", m, xLit)>>) : m \in DirectMethods }
  \cup { AssignStmt(<<Ident("s"), Ident("t")>>,
                    <<Call1("mewn", "String", xLit)>>),
          AssignStmt(<<Ident("g")>>, <<Call1("mewn", "Bytes", xLit)>>) }

ItemNodes ==
  { AssignStmt(<<Ident("s")>>, <<Call1("g", "String", xLit)>>) }

UnknownNodes ==
  { AssignStmt(<<Ident("s")>>, <<Call1("mewn", "Unknown", xLit)>>) }

\* statements the matchers reject, or that are no assignment at all
OtherNodes ==
  { AssignStmt(<<Ident("s"), Ident("t")>>,
               <<Call1("mewn", "String", xLit), Call1("mewn", "String", yLit)>>),
    AssignStmt(<<Ident("s")>>, <<Ident("g")>>),
    AssignStmt(<<Ident("s")>>, <<Call1("mewn", "String", Ident("p"))>>),
    ExprStmt(Call1("g", "String", xLit)) }

Nodes ==
  GroupNodes \cup DirectNodes \cup ItemNodes \cup UnknownNodes \cup OtherNodes

\* ------------------------------------------------------------------ state
VARIABLES
  pc,          \* "idle": no call running; "loop": at the head of the file loop;
               \* "inspect": ast.Inspect about to start; "walk": inside it
  fileNo,      \* files taken from filenames in this call
  nodeNo,      \* nodes below the file nodes visited in this call
  filename,    \* the loop variable
  baseDir,     \* filepath.Dir(filename); also the pointer thisAssetBundle
  tree,        \* the *ast.File that parser.ParseFile returned
  result,      \* the local result: a sequence of bundle pointers
  assetMap,    \* directory -> bundle
  groups,      \* identifier -> *Group
  heap,        \* the Group objects allocated in this call
  err,         \* the err variable of the loop body; <<>> is nil
  ret,         \* <<>> while the function runs, else the one-element sequence
               \* holding what it returned: [result, err] for the scan
  node,        \* the dynamic type of the node the callback was last invoked on
  thisAsset,   \* what ParseAssignment returned in that invocation; <<>> is nil
  cont,        \* the value the callback last returned
  groupDecls,  \* history: for each Group of heap, the file and the node
               \* that declared it
  seenDirs,    \* history: the directories of the files taken from filenames
               \* in this call, in the order of their first file
  stale        \* history: the identifiers that the group tables of earlier
               \* calls held

vars ==
  <<pc, fileNo, nodeNo, filename, baseDir, tree, result, assetMap,
    groups, heap, err, ret, node, thisAsset, cont, groupDecls, seenDirs,
    stale>>

NoNode == [type |-> "none"]

Init ==
  /\ pc = "idle"
  /\ fileNo = 0
  /\ nodeNo = 0
  /\ filename = <<>>
  /\ baseDir = <<>>
  /\ tree = NoNode
  /\ result = <<>>
  /\ assetMap = <<>>
  /\ groups = <<>>
  /\ heap = <<>>
  /\ err = <<>>
  /\ ret = <<>>
  /\ node = ""
  /\ thisAsset = <<>>
  /\ cont = TRUE
  /\ groupDecls = <<>>
  /\ seenDirs = <<>>
  /\ stale = {}

\* the work of this call so far: files taken and nodes visited; to keep the
\* calls that follow a call short, each identifier left by earlier calls
\* counts as the file and the assignment that registered it
Steps == fileNo + nodeNo + 2 * Cardinality(stale)

\* s with dir added at its end unless it holds dir
Encounter(s, dir) ==
  IF \E i \in 1..Len(s) : s[i] = dir THEN s ELSE Append(s, dir)

\* m with key k bound to v
Put(m, k, v) == [x \in DOMAIN m \cup {k} |-> IF x = k THEN v ELSE m[x]]

\* ------------------------------------------------- GetReferencedAssets
\* (r *ReferencedAssets) HasAsset; GetReferencedAssets never calls it
HasAsset(r, name) == \E i \in 1..Len(r.Assets) : r.Assets[i].Name = name

\* Call with the group table and its Groups kept from call to call
CallSharedGroups ==
  /\ pc = "idle"
  /\ fileNo' = 0
  /\ nodeNo' = 0
  /\ filename' = <<>>
  /\ baseDir' = <<>>
  /\ tree' = NoNode
  /\ result' = <<>>
  /\ assetMap' = <<>>
  /\ err' = <<>>
  /\ ret' = <<>>
  /\ node' = ""
  /\ thisAsset' = <<>>
  /\ cont' = TRUE
  /\ groupDecls' = <<>>
  /\ seenDirs' = <<>>
  /\ stale' = stale \cup DOMAIN groups
  /\ pc' = "loop"
  /\ UNCHANGED <<groups, heap>>

\* entry: the locals of a fresh call; nothing of an earlier call is kept
Call ==
  /\ pc = "idle"
  /\ fileNo' = 0
  /\ nodeNo' = 0
  /\ filename' = <<>>
  /\ baseDir' = <<>>
  /\ tree' = NoNode
  /\ result' = <<>>
  /\ assetMap' = <<>>
  /\ groups' = <<>>
  /\ heap' = <<>>
  /\ err' = <<>>
  /\ ret' = <<>>
  /\ node' = ""
  /\ thisAsset' = <<>>
  /\ cont' = TRUE
  /\ groupDecls' = <<>>
  /\ seenDirs' = <<>>
  /\ stale' = stale \cup DOMAIN groups
  /\ pc' = "loop"

NewBundle(f, dir) ==
  [Caller |-> f, PackageName |-> "", BaseDir |-> dir,
   Assets |-> <<>>, Groups |-> <<>>]

\* GetOrCreate without the nil test
GetOrCreateFresh(m, f, dir) == Put(m, dir, NewBundle(f, dir))

\* the bundle of dir, made on first use
GetOrCreate(m, f, dir) ==
  IF dir \in DOMAIN m THEN m ELSE Put(m, dir, NewBundle(f, dir))

\* ParseFile returning the bundles gathered so far when the parse fails
ParseFilePartial(f) ==
  /\ pc = "loop"
  /\ Steps < MaxSteps
  /\ fileNo' = fileNo + 1
  /\ filename' = f.name
  /\ seenDirs' = Encounter(seenDirs, Dir(f.name))
  /\ IF ~f.ok
     THEN /\ err' = <<"parse error", f.name>>
          /\ ret' = <<[result |-> result, err |-> err']>>
          /\ pc' = "idle"
          /\ UNCHANGED <<baseDir, tree, assetMap>>
     ELSE /\ err' = <<>>
          /\ tree' = [type |-> "*ast.File", Name |-> f.pkg]
          /\ baseDir' = Dir(f.name)
          /\ assetMap' = GetOrCreate(assetMap, f.name, Dir(f.name))
          /\ pc' = "inspect"
          /\ UNCHANGED ret
  /\ UNCHANGED <<nodeNo, result, groups, heap, node, thisAsset, cont,
                 groupDecls, stale>>

\* the head of one loop iteration: parse, then find the bundle
ParseFile(f) ==
  /\ pc = "loop"
  /\ Steps < MaxSteps
  /\ fileNo' = fileNo + 1
  /\ filename' = f.name
  /\ seenDirs' = Encounter(seenDirs, Dir(f.name))
  /\ IF ~f.ok
     THEN /\ err' = <<"parse error", f.name>>
          /\ ret' = <<[result |-> <<>>, err |-> err']>>
          /\ pc' = "idle"
          /\ UNCHANGED <<baseDir, tree, assetMap>>
     ELSE /\ err' = <<>>
          /\ tree' = [type |-> "*ast.File", Name |-> f.pkg]
          /\ baseDir' = Dir(f.name)
          /\ assetMap' = GetOrCreate(assetMap, f.name, Dir(f.name))
          /\ pc' = "inspect"
          /\ UNCHANGED ret
  /\ UNCHANGED <<nodeNo, result, groups, heap, node, thisAsset, cont,
                 groupDecls, stale>>

\* the callback on the root of the tree
VisitFile ==
  /\ pc = "inspect"
  /\ node' = tree.type
  /\ thisAsset' = <<>>
  /\ assetMap' = [assetMap EXCEPT ![baseDir].PackageName = tree.Name]
  /\ cont' = TRUE
  /\ pc' = "walk"
  /\ UNCHANGED <<fileNo, nodeNo, filename, baseDir, tree, result,
                 groups, heap, err, ret, groupDecls, seenDirs, stale>>

NewAsset(path, group) ==
  [Name |-> path, AssetPath |-> path, Group |-> group]

NewGroup(lhs, path, fullPath) ==
  [Name |-> lhs, LocalPath |-> path, FullPath |-> fullPath]

\* thisAssetBundle.Assets = append(thisAssetBundle.Assets, newAsset)
AppendAsset(m, dir, a) == [m EXCEPT ![dir].Assets = Append(@, a)]

\* ResolveGroup that reuses the Group its identifier is already bound to
ResolveGroupInPlace(x, a, wd) ==
  LET dir == Dir(filename)
      abs == Abs(Join(dir, a.RHS.Path), wd)
  IN  IF ~abs.ok
      THEN /\ cont' = FALSE
           /\ UNCHANGED <<assetMap, groups, heap, err, groupDecls>>
      ELSE IF a.LHS \in DOMAIN groups
      THEN /\ heap' = [heap EXCEPT ![groups[a.LHS]] =
                                    NewGroup(a.LHS, a.RHS.Path, abs.path)]
           /\ groupDecls' = [groupDecls EXCEPT ![groups[a.LHS]] =
                                                [file |-> filename, node |-> x]]
           /\ cont' = TRUE
           /\ UNCHANGED <<assetMap, groups, err>>
      ELSE /\ heap' = Append(heap, NewGroup(a.LHS, a.RHS.Path, abs.path))
           /\ groupDecls' = Append(groupDecls, [file |-> filename, node |-> x])
           /\ assetMap' =
                [assetMap EXCEPT ![baseDir].Groups = Append(@, Len(heap'))]
           /\ groups' = Put(groups, a.LHS, Len(heap'))
           /\ cont' = TRUE
           /\ UNCHANGED err

\* ResolveGroup that registers the Group without adding it to the bundle
ResolveGroupUnlisted(x, a, wd) ==
  LET dir == Dir(filename)
      abs == Abs(Join(dir, a.RHS.Path), wd)
  IN  IF ~abs.ok
      THEN /\ cont' = FALSE
           /\ UNCHANGED <<assetMap, groups, heap, err, groupDecls>>
      ELSE /\ heap' = Append(heap, NewGroup(a.LHS, a.RHS.Path, abs.path))
           /\ groupDecls' = Append(groupDecls, [file |-> filename, node |-> x])
           /\ groups' = Put(groups, a.LHS, Len(heap'))
           /\ cont' = TRUE
           /\ UNCHANGED <<assetMap, err>>

\* case "Group", for one outcome wd of the os.Getwd that filepath.Abs may call
ResolveGroup(x, a, wd) ==
  LET dir == Dir(filename)
      abs == Abs(Join(dir, a.RHS.Path), wd)
  IN  IF ~abs.ok
      THEN /\ cont' = FALSE
           /\ UNCHANGED <<assetMap, groups, heap, err, groupDecls>>
      ELSE /\ heap' = Append(heap, NewGroup(a.LHS, a.RHS.Path, abs.path))
           /\ groupDecls' = Append(groupDecls, [file |-> filename, node |-> x])
           /\ assetMap' =
                [assetMap EXCEPT ![baseDir].Groups = Append(@, Len(heap'))]
           /\ groups' = Put(groups, a.LHS, Len(heap'))
           /\ cont' = TRUE
           /\ UNCHANGED err

DeclareGroup(x, a) == \E wd \in WorkDirs : ResolveGroup(x, a, wd)

\* DirectAsset that looks the assigned identifier up in groups
DirectAssetOwned(a) ==
  /\ assetMap' =
       AppendAsset(assetMap, baseDir,
                   NewAsset(a.RHS.Path,
                            IF a.LHS \in DOMAIN groups THEN groups[a.LHS] ELSE 0))
  /\ cont' = TRUE
  /\ UNCHANGED <<groups, heap, err, groupDecls>>

\* case "String", "MustString", "Bytes", "MustBytes"
DirectAsset(a) ==
  /\ assetMap' = AppendAsset(assetMap, baseDir, NewAsset(a.RHS.Path, 0))
  /\ cont' = TRUE
  /\ UNCHANGED <<groups, heap, err, groupDecls>>

\* default: the error is stored in the err of the loop body, which nothing
\* reads afterwards, and the callback returns false
UnknownCall(a) ==
  /\ err' = <<"unknown call to mewn.", a.RHS.Method>>
  /\ cont' = FALSE
  /\ UNCHANGED <<assetMap, groups, heap, groupDecls>>

\* GroupCall that does not look the receiver up
GroupCallAlways(a) ==
  /\ assetMap' = AppendAsset(assetMap, baseDir, NewAsset(a.RHS.Path, 0))
  /\ cont' = TRUE
  /\ UNCHANGED <<groups, heap, err, groupDecls>>

\* GroupCall with the owner of the new asset left out
GroupCallUnowned(a) ==
  /\ IF a.RHS.Obj \in DOMAIN groups
     THEN assetMap' = AppendAsset(assetMap, baseDir, NewAsset(a.RHS.Path, 0))
     ELSE UNCHANGED assetMap
  /\ cont' = TRUE
  /\ UNCHANGED <<groups, heap, err, groupDecls>>

\* GroupCall that files the asset with the bundle the group was declared in
GroupCallToDeclarer(a) ==
  /\ IF a.RHS.Obj \in DOMAIN groups
     THEN assetMap' = AppendAsset(assetMap,
                                  Dir(groupDecls[groups[a.RHS.Obj]].file),
                                  NewAsset(a.RHS.Path, groups[a.RHS.Obj]))
     ELSE UNCHANGED assetMap
  /\ cont' = TRUE
  /\ UNCHANGED <<groups, heap, err, groupDecls>>

\* the receiver is not mewn: a call on a group when groups knows it
GroupCall(a) ==
  /\ IF a.RHS.Obj \in DOMAIN groups
     THEN assetMap' = AppendAsset(assetMap, baseDir,
                                  NewAsset(a.RHS.Path, groups[a.RHS.Obj]))
     ELSE UNCHANGED assetMap
  /\ cont' = TRUE
  /\ UNCHANGED <<groups, heap, err, groupDecls>>

\* VisitAssign that reports an assignment that does not match
VisitAssignRaising(x) ==
  /\ thisAsset' = ParseAssignment(x)
  /\ IF ParseAssignment(x) = <<>>
      THEN /\ err' = <<"no match">>
           /\ cont' = FALSE
           /\ UNCHANGED <<assetMap, groups, heap, groupDecls>>
      ELSE LET a == ParseAssignment(x)[1]
           IN  IF a.RHS.Obj = "mewn"
               THEN IF a.RHS.Method = "Group" THEN DeclareGroup(x, a)
                    ELSE IF a.RHS.Method \in DirectMethods THEN DirectAsset(a)
                    ELSE UnknownCall(a)
               ELSE GroupCall(a)

\* case *ast.AssignStmt
VisitAssign(x) ==
  /\ thisAsset' = ParseAssignment(x)
  /\ IF ParseAssignment(x) = <<>>
      THEN /\ cont' = TRUE
           /\ UNCHANGED <<assetMap, groups, heap, err, groupDecls>>
      ELSE LET a == ParseAssignment(x)[1]
           IN  IF a.RHS.Obj = "mewn"
               THEN IF a.RHS.Method = "Group" THEN DeclareGroup(x, a)
                    ELSE IF a.RHS.Method \in DirectMethods THEN DirectAsset(a)
                    ELSE UnknownCall(a)
               ELSE GroupCall(a)

\* One invocation of the callback of ast.Inspect on a node below the root.
\* A false return makes ast.Inspect skip the children of that node only: the
\* walk goes on with the nodes that follow it.  The children of a matched
\* assignment hold no statement, so this action is enabled whatever cont is.
Visit(n) ==
  /\ pc = "walk"
  /\ Steps < MaxSteps
  /\ nodeNo' = nodeNo + 1
  /\ node' = n.type
  /\ IF n.type = "*ast.AssignStmt"
     THEN VisitAssign(n)
     ELSE /\ thisAsset' = <<>>
          /\ cont' = TRUE
          /\ UNCHANGED <<assetMap, groups, heap, err, groupDecls>>
  /\ UNCHANGED <<pc, fileNo, filename, baseDir, tree, result, ret,
                 seenDirs, stale>>

\* EndInspect that puts the bundle at the front of result
EndInspectPrepend ==
  /\ pc = "walk"
  /\ result' = <<baseDir>> \o result
  /\ filename' = <<>>
  /\ baseDir' = <<>>
  /\ tree' = NoNode
  /\ err' = <<>>
  /\ node' = ""
  /\ thisAsset' = <<>>
  /\ cont' = TRUE
  /\ pc' = "loop"
  /\ UNCHANGED <<fileNo, nodeNo, assetMap, groups, heap, ret, groupDecls,
                 seenDirs, stale>>

\* ast.Inspect returns: result = append(result, thisAssetBundle).  The
\* iteration ends here, and with it the scope of the variables declared in
\* the loop body (err among them) and of the callback.
EndInspect ==
  /\ pc = "walk"
  /\ result' = Append(result, baseDir)
  /\ filename' = <<>>
  /\ baseDir' = <<>>
  /\ tree' = NoNode
  /\ err' = <<>>
  /\ node' = ""
  /\ thisAsset' = <<>>
  /\ cont' = TRUE
  /\ pc' = "loop"
  /\ UNCHANGED <<fileNo, nodeNo, assetMap, groups, heap, ret, groupDecls,
                 seenDirs, stale>>

\* filenames is exhausted: return result, nil
Return ==
  /\ pc = "loop"
  /\ ret' = <<[result |-> result, err |-> <<>>]>>
  /\ pc' = "idle"
  /\ UNCHANGED <<fileNo, nodeNo, filename, baseDir, tree, result,
                 assetMap, groups, heap, err, node, thisAsset, cont,
                 groupDecls, seenDirs, stale>>

Next ==
  \/ Call
  \/ \E f \in SourceFiles : ParseFile(f)
  \/ VisitFile
  \/ \E n \in Nodes : Visit(n)
  \/ EndInspect
  \/ Return

Spec == Init /\ [][Next]_vars

\* ------------------------------------------- ParseCallExpr on its own
\* the call expressions handed to ParseCallExpr: every target below with
\* every list of at most two of the arguments below
CallTargets ==
  { SelectorExpr(Ident("mewn"), Ident("String")),
    SelectorExpr(Ident("mewn"), Ident("Group")),
    SelectorExpr(Ident("g"), Ident("Bytes")),
    SelectorExpr(SelectorExpr(Ident("a"), Ident("b")), Ident("String")),
    Ident("f") }

CallArgs ==
  { StringLit(<<"x.txt">>),
    StringLit(<<"a", BS, DQ, "b">>),
    RawLit(<<"x.txt">>),
    BasicLit("INT", <<"42">>),
    BasicLit("FLOAT", <<"1.5">>),
    BasicLit("CHAR", <<SQ, "c", SQ>>),
    Ident("p") }

CallArgLists ==
  { <<>> } \cup { <<a>> : a \in CallArgs }
  \cup { <<a, b>> : a \in {xLit, Ident("p")}, b \in CallArgs }

CallExprs == { CallExpr(t, as) : t \in CallTargets, as \in CallArgLists }

InitCall ==
  /\ pc = "call"
  /\ tree \in CallExprs
  /\ fileNo = 0
  /\ nodeNo = 0
  /\ filename = <<>>
  /\ baseDir = <<>>
  /\ result = <<>>
  /\ assetMap = <<>>
  /\ groups = <<>>
  /\ heap = <<>>
  /\ err = <<>>
  /\ ret = <<>>
  /\ node = ""
  /\ thisAsset = <<>>
  /\ cont = TRUE
  /\ groupDecls = <<>>
  /\ seenDirs = <<>>
  /\ stale = {}

\* ParseCallExpr is applied to tree and returns
ApplyParseCallExpr ==
  /\ pc = "call"
  /\ ret' = <<ParseCallExpr(tree)>>
  /\ pc' = "returned"
  /\ UNCHANGED <<fileNo, nodeNo, filename, baseDir, tree, result, assetMap,
                 groups, heap, err, node, thisAsset, cont, groupDecls,
                 seenDirs, stale>>

SpecCall == InitCall /\ [][ApplyParseCallExpr]_vars

\* ------------------------------------------------------------- claims
\* C1: no bundle holds two assets with the same Name: a declaration of a
\* name the bundle of the file's directory already holds is dropped.
NoDuplicateAssetNames ==
  \A d \in DOMAIN assetMap :
    \A i, j \in 1..Len(assetMap[d].Assets) :
      i # j => assetMap[d].Assets[i].Name # assetMap[d].Assets[j].Name

\* C2: once an assignment calling an unknown method of mewn has been
\* processed, the next thing the scan does is return a non-nil error that
\* names the method; no further statement or file is processed.
UnknownMethodAborts ==
  [][(pc = "walk" /\ err # <<>>)
       => /\ pc' = "idle"
          /\ ret' # <<>>
          /\ ret'[1].err = err]_vars

\* C3: the returned list holds exactly one bundle per distinct directory of
\* the input files: every directory bundle is in it, and none twice.
OneBundlePerDirectory ==
  (pc = "idle" /\ ret # <<>> /\ ret[1].err = <<>>)
    => /\ \A d \in DOMAIN assetMap :
            \E i \in 1..Len(ret[1].result) : ret[1].result[i] = d
       /\ \A i, j \in 1..Len(ret[1].result) :
            i # j => ret[1].result[i] # ret[1].result[j]

\* the text between the delimiters of a literal token
LitText(v) == SubSeq(v, 2, Len(v) - 1)

\* of an assignment  lhs = recv.method(lit) : recv, and the text of lit
Receiver(n) == n.Rhs[1].Fun.X.Name
ArgText(n) == LitText(n.Rhs[1].Args[1].Value)

Max(S) == CHOOSE x \in S : \A y \in S : y <= x

\* the Group assignments to identifier g registered so far in this call
DeclsOf(g) ==
  { i \in 1..Len(groupDecls) : groupDecls[i].node.Lhs = <<Ident(g)>> }

\* the absolute join of the path literal local with the directory of file
ExpectedFullPath(file, local) ==
  Clean((IF IsAbs(file) THEN <<>> ELSE WorkDir \o <<SL>>)
        \o SubSeq(file, 1, LastSep(file) - 1) \o <<SL>> \o local)

\* C4: when  x = g.M("x.txt")  is processed after a Group assignment to g was
\* registered, in this file or an earlier one, the bundle of the current
\* file gains an asset named x.txt owned by the Group of the latest such
\* assignment, whose LocalPath is the literal of that assignment and whose
\* FullPath is the absolute join of it with the declaring file's directory.
GroupItemResolves ==
  [][\A n \in ItemNodes :
       (Visit(n) /\ DeclsOf(Receiver(n)) # {})
         => LET i == Max(DeclsOf(Receiver(n)))
                local == ArgText(groupDecls[i].node)
            IN  /\ assetMap'[baseDir].Assets =
                     Append(assetMap[baseDir].Assets,
                            [Name |-> ArgText(n), AssetPath |-> ArgText(n),
                             Group |-> i])
                /\ heap'[i] =
                     [Name |-> Receiver(n), LocalPath |-> local,
                      FullPath |->
                        ExpectedFullPath(groupDecls[i].file, local)]]_vars

\* an item call of a later file, of another directory than the declaring
\* one, has produced an asset owned by the declared Group
GroupItemResolved ==
  /\ pc = "walk"
  /\ thisAsset # <<>>
  /\ thisAsset[1].RHS.Obj = "g"
  /\ "g" \in DOMAIN groups
  /\ groupDecls[groups["g"]].file # filename
  /\ Dir(groupDecls[groups["g"]].file) # baseDir
  /\ assetMap[baseDir].Assets # <<>>
  /\ assetMap[baseDir].Assets[Len(assetMap[baseDir].Assets)].Group = groups["g"]

\* the Assets of every bundle are what they were
AssetsUnchanged ==
  /\ DOMAIN assetMap' = DOMAIN assetMap
  /\ \A d \in DOMAIN assetMap : assetMap'[d].Assets = assetMap[d].Assets

\* C5: an item call  x = g.M("x")  processed while no Group assignment to g
\* is registered adds no asset, and a Group assignment processed afterwards
\* adds none either: the earlier call is not resolved retroactively.
UndeclaredItemIgnored ==
  [][/\ \A n \in ItemNodes :
          (Visit(n) /\ DeclsOf(Receiver(n)) = {})
            => (AssetsUnchanged /\ groups' = groups /\ heap' = heap)
     /\ \A n \in GroupNodes : Visit(n) => AssetsUnchanged]_vars

\* an item call on g has just been processed, in a second file, while no
\* Group assignment to g is registered
UndeclaredItemProcessed ==
  /\ pc = "walk"
  /\ node = "*ast.AssignStmt"
  /\ thisAsset # <<>>
  /\ thisAsset[1].RHS.Obj = "g"
  /\ "g" \notin DOMAIN groups
  /\ result # <<>>
  /\ assetMap[baseDir].Assets = <<>>

\* C6: when a file fails to parse, the call returns at once with the parse
\* error of that file and a nil list, whatever result holds by then; until a
\* new call starts nothing more is processed.
ParseFailureAborts ==
  [][/\ \A f \in SourceFiles :
          (ParseFile(f) /\ ~f.ok)
            => /\ pc' = "idle"
               /\ ret' = <<[result |-> <<>>, err |-> <<"parse error", f.name>>]>>
               /\ UNCHANGED <<assetMap, groups, heap, result>>
     /\ (pc = "idle" /\ ret # <<>>)
          => (pc' = "loop" /\ fileNo' = 0 /\ result' = <<>> /\ ret' = <<>>)]_vars

\* a call has returned a parse error after an earlier file was processed
ParseFailedAfterFiles ==
  /\ pc = "idle"
  /\ ret # <<>>
  /\ ret[1].err # <<>>
  /\ ret[1].result = <<>>
  /\ result # <<>>

\* C7 as stated: once a bundle has a package name, neither its Caller nor
\* its PackageName changes when a later file of the directory is processed.
FirstFileWins ==
  [][\A d \in DOMAIN assetMap \cap DOMAIN assetMap' :
       assetMap[d].PackageName # ""
         => /\ assetMap'[d].Caller = assetMap[d].Caller
            /\ assetMap'[d].PackageName = assetMap[d].PackageName]_vars

\* C7 as amended: the Caller of a bundle is the first processed file of its
\* directory and never changes; the PackageName is that of the file of the
\* directory whose walk started last, and only the start of a walk changes it.
CallerFirstPackageLast ==
  [][/\ \A d \in DOMAIN assetMap \cap DOMAIN assetMap' :
          assetMap'[d].Caller = assetMap[d].Caller
     /\ \A f \in SourceFiles :
          (ParseFile(f) /\ f.ok)
            => /\ tree'.Name = f.pkg
               /\ \A d \in DOMAIN assetMap' \ DOMAIN assetMap :
                    assetMap'[d].Caller = f.name
     /\ (pc = "inspect") => assetMap'[baseDir].PackageName = tree.Name
     /\ (pc # "inspect")
          => \A d \in DOMAIN assetMap \cap DOMAIN assetMap' :
               assetMap'[d].PackageName = assetMap[d].PackageName]_vars

\* the walk of a/n.go has started after a/m.go was processed: the bundle of a
\* keeps the Caller a/m.go and has the package name of a/n.go
SecondFileRenamedPackage ==
  /\ pc = "walk"
  /\ filename = <<"a", SL, "n.go">>
  /\ assetMap[baseDir].Caller = <<"a", SL, "m.go">>
  /\ assetMap[baseDir].PackageName = "main_test"

\* C8: a Group assignment whose path does not resolve adds no group; after
\* it no statement of the file changes a bundle or the group table; the
\* walk then ends with the bundle appended to result and no error.
AbsFailureEndsWalk ==
  [][/\ \A n \in GroupNodes :
          (Visit(n) /\ ~cont')
            => UNCHANGED <<assetMap, groups, heap, err>>
     /\ (pc = "walk" /\ ~cont /\ err = <<>>)
          => /\ UNCHANGED <<assetMap, groups, heap, err>>
             /\ pc' = "loop" => result' = Append(result, baseDir)]_vars

\* the shape C9 asks of an assignment
OneIdentTarget(n) == Len(n.Lhs) = 1 /\ n.Lhs[1].type = "*ast.Ident"
OneCallValue(n) ==
  /\ Len(n.Rhs) = 1
  /\ n.Rhs[1].type = "*ast.CallExpr"
  /\ ParseCallExpr(n.Rhs[1]) # <<>>

AssignNodes == { n \in Nodes : n.type = "*ast.AssignStmt" }

StringLitCall(c) ==
  /\ Len(c.Args) = 1
  /\ c.Fun.type = "*ast.SelectorExpr"
  /\ c.Fun.X.type = "*ast.Ident"
  /\ c.Args[1].type = "*ast.BasicLit"
  /\ c.Args[1].Kind = "STRING"

\* C10: ParseCallExpr matches exactly the calls of that shape, so a literal
\* of another kind gives no match, and the Path of a match is the text of
\* the literal without its two delimiters.
MatchesStringLiteralCalls ==
  pc = "returned"
    => /\ ret[1] # <<>> <=> StringLitCall(tree)
       /\ ret[1] # <<>>
            => /\ ret[1][1].Obj = tree.Fun.X.Name
               /\ ret[1][1].Method = tree.Fun.Sel.Name
               /\ ret[1][1].Path = LitText(tree.Args[1].Value)

\* s is t with elements added at its end, or t itself
IsPrefix(t, s) == Len(t) <= Len(s) /\ SubSeq(s, 1, Len(t)) = t

\* C11: every asset of every bundle has Name = AssetPath = the text of the
\* path literal of the call that created it, and stays as it was created; an
\* asset created by mewn.String, MustString, Bytes or MustBytes has no owning
\* Group, whatever identifier is assigned and whatever groups are registered.
DirectAssetUnowned ==
  /\ [](\A d \in DOMAIN assetMap :
          \A i \in 1..Len(assetMap[d].Assets) :
            /\ assetMap[d].Assets[i].Name = assetMap[d].Assets[i].AssetPath
            /\ assetMap[d].Assets[i].Name
                 \in { ArgText(n) : n \in DirectNodes \cup ItemNodes })
  /\ [][/\ \A n \in DirectNodes :
            Visit(n)
              => assetMap'[baseDir].Assets =
                   Append(assetMap[baseDir].Assets,
                          [Name |-> ArgText(n), AssetPath |-> ArgText(n),
                           Group |-> 0])
        /\ \A n \in ItemNodes :
            Visit(n)
              => \/ assetMap'[baseDir].Assets = assetMap[baseDir].Assets
                 \/ /\ Len(assetMap'[baseDir].Assets) =
                         Len(assetMap[baseDir].Assets) + 1
                    /\ LET new == assetMap'[baseDir].Assets[
                                     Len(assetMap'[baseDir].Assets)]
                       IN  new.Name = ArgText(n) /\ new.AssetPath = ArgText(n)
        /\ pc # "idle"
            => \A d \in DOMAIN assetMap :
                 /\ d \in DOMAIN assetMap'
                 /\ IsPrefix(assetMap[d].Assets, assetMap'[d].Assets)]_vars

\* g = mewn.Bytes("x.txt") has been processed while a Group is registered
\* for g: the asset it appended has no owning Group
DirectAssetOnGroupName ==
  /\ pc = "walk"
  /\ thisAsset # <<>>
  /\ thisAsset[1].LHS = "g"
  /\ thisAsset[1].RHS.Obj = "mewn"
  /\ thisAsset[1].RHS.Method \in DirectMethods
  /\ "g" \in DOMAIN groups
  /\ assetMap[baseDir].Assets # <<>>
  /\ assetMap[baseDir].Assets[Len(assetMap[baseDir].Assets)] =
       [Name |-> <<"x.txt">>, AssetPath |-> <<"x.txt">>, Group |-> 0]

\* the elements of s, and the index at which x first appears in s
Range(s) == { s[i] : i \in 1..Len(s) }
FirstPos(s, x) == CHOOSE i \in 1..Len(s) : s[i] = x /\ \A j \in 1..(i - 1) : s[j] # x

\* C12: in the list a call returns, the bundles first appear in the order in
\* which their directories were first met among the input files: when the
\* first file of d1 precedes the first file of d2, the bundle of d1 first
\* appears before that of d2, whatever the names of the directories.
FirstEncounterOrder ==
  (pc = "idle" /\ ret # <<>> /\ ret[1].err = <<>>)
    => /\ Range(ret[1].result) = Range(seenDirs)
       /\ \A d1, d2 \in Range(seenDirs) :
            FirstPos(seenDirs, d1) < FirstPos(seenDirs, d2)
              => FirstPos(ret[1].result, d1) < FirstPos(ret[1].result, d2)

\* a call given a file of a, a file of /r and a file of a again has returned
\* the bundle of a before that of /r, against the order of the names
ReturnedAgainstAlphabet ==
  /\ pc = "idle"
  /\ ret # <<>>
  /\ ret[1].err = <<>>
  /\ seenDirs = << <<"a">>, <<SL, "r">> >>
  /\ ret[1].result = << <<"a">>, <<SL, "r">>, <<"a">> >>

\* the Assets and the Groups of every bundle are what they were, and a
\* bundle that is new has none
ContentsUnchanged ==
  \A d \in DOMAIN assetMap' :
    IF d \in DOMAIN assetMap
    THEN /\ assetMap'[d].Assets = assetMap[d].Assets
         /\ assetMap'[d].Groups = assetMap[d].Groups
    ELSE /\ assetMap'[d].Assets = <<>>
         /\ assetMap'[d].Groups = <<>>

\* C13: processing a statement that does not match, or a matched assignment
\* whose receiver is neither mewn nor an identifier of the group table,
\* changes neither the group table nor the Groups and Assets of any bundle
\* and raises no error; and since no other step of a call changes them
\* either, a call whose files hold no matching statement returns bundles
\* with empty Groups and Assets.
NoMatchNoEffect ==
  [][/\ \A n \in OtherNodes \cup ItemNodes :
          (Visit(n) /\ (n \in ItemNodes => Receiver(n) \notin DOMAIN groups))
            => /\ UNCHANGED <<groups, heap, err>>
               /\ DOMAIN assetMap' = DOMAIN assetMap
               /\ ContentsUnchanged
               /\ cont'
     /\ (pc # "idle" /\ ~(pc = "walk" /\ pc' = "walk" /\ thisAsset' # <<>>))
          => /\ UNCHANGED <<groups, heap>>
             /\ ContentsUnchanged
     /\ (pc = "loop" /\ pc' = "idle" /\ ret'[1].err = <<>>)
          => ret'[1].result = result]_vars

\* an assignment that does not match has been processed in a call that had
\* registered a group and added an asset before
NoMatchAfterContent ==
  /\ pc = "walk"
  /\ node = "*ast.AssignStmt"
  /\ thisAsset = <<>>
  /\ err = <<>>
  /\ groups # <<>>
  /\ assetMap[baseDir].Assets # <<>>
  /\ assetMap[baseDir].Groups # <<>>

\* the Group assignments registered so far in this call under the name id
DeclsNamed(id) ==
  { i \in 1..Len(groupDecls) :
      ParseAssignment(groupDecls[i].node)[1].LHS = id }

\* C14: the group table belongs to one call.  An identifier that the table
\* of an earlier call held is not in the table of this call, and no asset of
\* this call is owned by a Group of that name, until this call has itself
\* processed a Group assignment to it; and whatever the table of this call
\* holds is the latest Group this call registered under that name.
GroupTablePerCall ==
  /\ \A id \in stale :
       DeclsNamed(id) = {}
         => /\ id \notin DOMAIN groups
            /\ \A d \in DOMAIN assetMap :
                 \A i \in 1..Len(assetMap[d].Assets) :
                   assetMap[d].Assets[i].Group # 0
                     => heap[assetMap[d].Assets[i].Group].Name # id
  /\ \A id \in DOMAIN groups :
       /\ DeclsNamed(id) # {}
       /\ groups[id] = Max(DeclsNamed(id))

\* in a call that follows one which registered g, the item call
\* s = g.String("x.txt") has been processed and has added no asset
StaleGroupItemIgnored ==
  /\ pc = "walk"
  /\ "g" \in stale
  /\ thisAsset # <<>>
  /\ thisAsset[1].RHS.Obj = "g"
  /\ "g" \notin DOMAIN groups
  /\ assetMap[baseDir].Assets = <<>>

\* C15: a Group assignment to an identifier the group table already holds
\* adds a second Group to the bundle of its own file and binds the
\* identifier to it; the first Group stays, unchanged, in the Groups of its
\* declaring bundle, and the assets that own it keep it.  An item call owns
\* the Group the table holds when it is processed, the latest registered
\* under that name: the first between the two assignments, the second after.
RedeclarationKeepsBoth ==
  [][/\ \A n \in GroupNodes :
          LET id == ParseAssignment(n)[1].LHS
          IN  (Visit(n) /\ cont' /\ id \in DOMAIN groups)
                => /\ heap' = Append(heap,
                                     [Name |-> id, LocalPath |-> ArgText(n),
                                      FullPath |->
                                        ExpectedFullPath(filename, ArgText(n))])
                   /\ DOMAIN groups' = DOMAIN groups
                   /\ groups'[id] = Len(heap) + 1
                   /\ \A d \in DOMAIN assetMap :
                        assetMap'[d].Groups =
                          IF d = baseDir
                          THEN Append(assetMap[d].Groups, Len(heap) + 1)
                          ELSE assetMap[d].Groups
                   /\ groups[id] \in
                        Range(assetMap'[Dir(groupDecls[groups[id]].file)].Groups)
                   /\ AssetsUnchanged
     /\ \A n \in ItemNodes :
          (Visit(n) /\ Receiver(n) \in DOMAIN groups)
            => /\ Len(assetMap'[baseDir].Assets) =
                    Len(assetMap[baseDir].Assets) + 1
               /\ assetMap'[baseDir].Assets[Len(assetMap'[baseDir].Assets)].Group
                    = Max(DeclsNamed(Receiver(n)))
     /\ pc # "idle"
          => /\ IsPrefix(heap, heap')
             /\ \A d \in DOMAIN assetMap :
                  /\ IsPrefix(assetMap[d].Groups, assetMap'[d].Groups)
                  /\ IsPrefix(assetMap[d].Assets, assetMap'[d].Assets)]_vars

\* g was declared in a file of one directory and again in a file of another;
\* an item call processed in between owns the first Group, the one just
\* processed owns the second, and each Group is in the Groups of the bundle
\* of its own file
TwoGroupsOfOneName ==
  /\ pc = "walk"
  /\ DeclsNamed("g") = {1, 2}
  /\ heap[1] # heap[2]
  /\ groups["g"] = 2
  /\ Dir(groupDecls[1].file) # baseDir
  /\ assetMap[Dir(groupDecls[1].file)].Groups = <<1>>
  /\ assetMap[baseDir].Groups = <<2>>
  /\ \E i \in 1..Len(assetMap[Dir(groupDecls[1].file)].Assets) :
       assetMap[Dir(groupDecls[1].file)].Assets[i].Group = 1
  /\ thisAsset # <<>>
  /\ thisAsset[1].RHS.Obj = "g"
  /\ assetMap[baseDir].Assets # <<>>
  /\ assetMap[baseDir].Assets[Len(assetMap[baseDir].Assets)].Group = 2

\* C16: the asset of an item call on a group goes to the bundle of the
\* directory of the file that holds the item call and to no other; when the
\* group was declared in a file of another directory, the Assets of the
\* declaring bundle stay as they were, and the Group that owns the asset is
\* in the Groups of the declaring bundle, not of the bundle holding the asset.
ItemAssetInCallersBundle ==
  [][\A n \in ItemNodes :
       (Visit(n) /\ Receiver(n) \in DOMAIN groups)
         => LET i == groups[Receiver(n)]
                decl == Dir(groupDecls[i].file)
            IN  /\ baseDir = Dir(filename)
                /\ assetMap'[baseDir].Assets =
                     Append(assetMap[baseDir].Assets,
                            [Name |-> ArgText(n), AssetPath |-> ArgText(n),
                             Group |-> i])
                /\ \A d \in DOMAIN assetMap \ {baseDir} :
                     assetMap'[d] = assetMap[d]
                /\ decl # baseDir
                     => /\ assetMap'[decl].Assets = assetMap[decl].Assets
                        /\ i \in Range(assetMap'[decl].Groups)
                        /\ i \notin Range(assetMap'[baseDir].Groups)]_vars

\* an item call in a file of /r on a group declared in a file of a: the
\* bundle of /r holds the asset and no group, the bundle of a holds the
\* group and no asset
ForeignGroupOwnsAsset ==
  /\ pc = "walk"
  /\ baseDir = <<SL, "r">>
  /\ thisAsset # <<>>
  /\ thisAsset[1].RHS.Obj = "g"
  /\ "g" \in DOMAIN groups
  /\ groupDecls[groups["g"]].file = <<"a", SL, "m.go">>
  /\ assetMap[<<"a">>].Assets = <<>>
  /\ assetMap[<<"a">>].Groups = <<groups["g"]>>
  /\ assetMap[baseDir].Groups = <<>>
  /\ assetMap[baseDir].Assets =
       <<[Name |-> <<"x.txt">>, AssetPath |-> <<"x.txt">>,
          Group |-> groups["g"]]>>

\* the Groups that the group table or an asset of some bundle points to
ReferencedGroups ==
  { groups[id] : id \in DOMAIN groups }
  \cup { i \in 1..Len(heap) :
           \E d \in DOMAIN assetMap :
             \E k \in 1..Len(assetMap[d].Assets) :
               assetMap[d].Assets[k].Group = i }

\* the bundles whose Groups hold the Group i
Holders(i) == { d \in DOMAIN assetMap : i \in Range(assetMap[d].Groups) }

\* C17: every Group that the group table holds or that owns an asset is in
\* the Groups of exactly one bundle of assetMap, once; that bundle is in
\* result, or is the bundle of the file being processed, which is appended
\* to result when its walk ends; and when the call returns its list, the
\* bundle is in the list.
ReferencedGroupListedOnce ==
  \A i \in ReferencedGroups :
    /\ Cardinality(Holders(i)) = 1
    /\ \A d \in Holders(i) :
         /\ Cardinality({ k \in 1..Len(assetMap[d].Groups) :
                            assetMap[d].Groups[k] = i }) = 1
         /\ \/ d \in Range(result)
            \/ pc \in {"inspect", "walk"} /\ d = baseDir
         /\ (pc = "idle" /\ ret # <<>> /\ ret[1].err = <<>>)
              => d \in Range(ret[1].result)

\* a call has returned two bundles, one holding an asset owned by a Group
\* that the group table holds and that is in the Groups of the other
ReturnedWithSharedGroup ==
  /\ pc = "idle"
  /\ ret # <<>>
  /\ ret[1].err = <<>>
  /\ \E d1, d2 \in Range(ret[1].result) :
       /\ d1 # d2
       /\ \E k \in 1..Len(assetMap[d1].Assets) :
            /\ assetMap[d1].Assets[k].Group # 0
            /\ assetMap[d1].Assets[k].Group \in { groups[id] : id \in DOMAIN groups }
            /\ Holders(assetMap[d1].Assets[k].Group) = {d2}

====
